---- MODULE Spec2Model ----
(***************************************************************************)
(* Model of src/client/run.py: the document-ingestion client.  main() and  *)
(* each helper function are modelled; the harness either runs main() or    *)
(* calls one helper directly with arguments of its own (variable `entry`). *)
(* Text values are sequences of one-character strings so that int(),       *)
(* str.lower(), Path.suffix, Path.stem and the f-string of the base URL    *)
(* are computed as Python computes them.                                   *)
(***************************************************************************)
EXTENDS Integers, Sequences, FiniteSets, TLC

\* ------------------------------------------------------------------ bounds
MaxModels == 2      \* longest answer of client.models.list()
MaxFiles == 2       \* most children of the docs folder

\* ------------------------------------------------------------ text helpers
DigitChars == <<"0", "1", "2", "3", "4", "5", "6", "7", "8", "9">>
UpperChars == <<"A", "B", "C", "D", "E", "F", "G", "H", "I", "J", "K", "L", "M",
                "N", "O", "P", "Q", "R", "S", "T", "U", "V", "W", "X", "Y", "Z">>
LowerChars == <<"a", "b", "c", "d", "e", "f", "g", "h", "i", "j", "k", "l", "m",
                "n", "o", "p", "q", "r", "s", "t", "u", "v", "w", "x", "y", "z">>

IsDigit(c) == \E i \in 1..10 : DigitChars[i] = c
DigitVal(c) == (CHOOSE i \in 1..10 : DigitChars[i] = c) - 1

\* str.lower()
LowerChar(c) ==
    IF \E i \in 1..26 : UpperChars[i] = c
    THEN LowerChars[CHOOSE i \in 1..26 : UpperChars[i] = c]
    ELSE c
lower(s) == [i \in 1..Len(s) |-> LowerChar(s[i])]

\* str.strip() of blanks
RECURSIVE LStrip(_)
LStrip(s) == IF s # <<>> /\ Head(s) = " " THEN LStrip(Tail(s)) ELSE s
RECURSIVE RStrip(_)
RStrip(s) == IF s # <<>> /\ s[Len(s)] = " " THEN RStrip(SubSeq(s, 1, Len(s) - 1)) ELSE s
strip(s) == RStrip(LStrip(s))

RECURSIVE DigitsVal(_)
DigitsVal(s) == IF s = <<>> THEN 0
                ELSE 10 * DigitsVal(SubSeq(s, 1, Len(s) - 1)) + DigitVal(s[Len(s)])

\* int(str): blanks stripped, optional sign, then one or more decimal digits;
\* anything else raises ValueError (ok = FALSE).
int(s) ==
    LET t == strip(s)
        signed == t # <<>> /\ Head(t) \in {"+", "-"}
        body == IF signed THEN Tail(t) ELSE t
    IN  IF body = <<>> \/ \E i \in 1..Len(body) : ~IsDigit(body[i])
        THEN [ok |-> FALSE, val |-> 0]
        ELSE [ok |-> TRUE,
              val |-> IF signed /\ Head(t) = "-" THEN 0 - DigitsVal(body) ELSE DigitsVal(body)]

\* str(int), as the f-string of the base URL formats the port
RECURSIVE NatStr(_)
NatStr(n) == IF n < 10 THEN <<DigitChars[n + 1]>>
             ELSE NatStr(n \div 10) \o <<DigitChars[(n % 10) + 1]>>
str(n) == IF n < 0 THEN <<"-">> \o NatStr(0 - n) ELSE NatStr(n)

\* str.rfind(c): index of the last occurrence, 0 when absent
rfind(s, c) == IF \E i \in 1..Len(s) : s[i] = c
               THEN CHOOSE i \in 1..Len(s) : s[i] = c /\ \A j \in (i + 1)..Len(s) : s[j] # c
               ELSE 0

\* pathlib: the suffix is the part from the last dot, unless that dot is the
\* first or the last character of the name
HasSuffix(name) == rfind(name, ".") > 1 /\ rfind(name, ".") < Len(name)
suffix(name) == IF HasSuffix(name) THEN SubSeq(name, rfind(name, "."), Len(name)) ELSE <<>>
stem(name) == IF HasSuffix(name) THEN SubSeq(name, 1, rfind(name, ".") - 1) ELSE name

\* ------------------------------------------------------------- exceptions
NoExc == [type |-> "", msg |-> ""]
ValueError(m) == [type |-> "ValueError", msg |-> m]
KeyError(m) == [type |-> "KeyError", msg |-> m]
TypeError(m) == [type |-> "TypeError", msg |-> m]
\* failures of the remote service and of the file system
APIError(m) == [type |-> "APIConnectionError", msg |-> m]
OSError(m) == [type |-> "OSError", msg |-> m]

DEFAULT_DELAY_SECONDS == 5

\* ---------------------------------------------------------- create_client
S_http == <<"h", "t", "t", "p">>
S_https == <<"h", "t", "t", "p", "s">>

\* create_client(host, port, secure): the exception raised, or the base URL of
\* the one LlamaStackClient constructed
create_client_OffByOne(host, port, secure) ==
    LET protocol == IF secure THEN S_https ELSE S_http
    IN  IF ~(0 <= port /\ port <= 65535)
        THEN [exc |-> ValueError("port out of range"), base_url |-> <<>>]
        ELSE IF host = <<>>
        THEN [exc |-> ValueError("host empty"), base_url |-> <<>>]
        ELSE [exc |-> NoExc,
              base_url |-> protocol \o <<":", "/", "/">> \o host \o <<":">> \o str(port)]

create_client(host, port, secure) ==
    LET protocol == IF secure THEN S_https ELSE S_http
    IN  IF ~(1 <= port /\ port <= 65535)
        THEN [exc |-> ValueError("port out of range"), base_url |-> <<>>]
        ELSE IF host = <<>>
        THEN [exc |-> ValueError("host empty"), base_url |-> <<>>]
        ELSE [exc |-> NoExc,
              base_url |-> protocol \o <<":", "/", "/">> \o host \o <<":">> \o str(port)]

\* ------------------------------------------------------------------ models
\* A model descriptor.  metadata.kind is the Python type of the metadata
\* attribute; has_dim says whether the dict holds "embedding_dimension" and
\* dim is the Python type of that entry's value.
Metadata(kind, has_dim, dim) == [kind |-> kind, has_dim |-> has_dim, dim |-> dim]
NoMetadata == Metadata("NoneType", FALSE, "NoneType")
Model(id, prov, type, md) ==
    [py |-> "Model", identifier |-> id, provider_id |-> prov,
     api_model_type |-> type, metadata |-> md]
\* Python's None in a place where a Model is expected
NoModel == [py |-> "NoneType", identifier |-> <<>>, provider_id |-> <<>>,
            api_model_type |-> "", metadata |-> NoMetadata]

\* isinstance(value, classes) on the type names; bool is a subclass of int
IsInstance(type, classes) == type \in classes \/ (type = "bool" /\ "int" \in classes)

\* one invocation of the remote API
Call(api, vdb, model, prov, docs, chunk) ==
    [api |-> api, vector_db_id |-> vdb, embedding_model |-> model,
     provider_id |-> prov, documents |-> docs, chunk_size_in_tokens |-> chunk]

\* the for loop of get_embedding_model: the first model of the listing that
\* satisfies the three conditions, None when the loop falls through
RECURSIVE FirstMatch(_, _, _)
FirstMatch(models, id, prov) ==
    IF models = <<>> THEN NoModel
    ELSE IF /\ Head(models).identifier = id
            /\ Head(models).provider_id = prov
            /\ Head(models).api_model_type = "embedding"
         THEN Head(models)
         ELSE FirstMatch(Tail(models), id, prov)

\* get_embedding_model(client, id, provider).  listing is what
\* client.models.list() answers: [exc, models].
get_embedding_model_NoIdCheck(listing, id, prov) ==
    IF prov = <<>>
    THEN [exc |-> ValueError("provider required"), model |-> NoModel, calls |-> <<>>]
    ELSE LET listed == <<Call("models.list", <<>>, <<>>, <<>>, <<>>, 0)>>
             found == FirstMatch(listing.models, id, prov)
         IN  IF listing.exc # NoExc
             THEN [exc |-> listing.exc, model |-> NoModel, calls |-> listed]
             ELSE IF found.py = "Model"
             THEN [exc |-> NoExc, model |-> found, calls |-> listed]
             ELSE [exc |-> ValueError("model not found"), model |-> NoModel, calls |-> listed]

RECURSIVE FirstMatch_AnyProvider(_, _, _)
FirstMatch_AnyProvider(models, id, prov) ==
    IF models = <<>> THEN NoModel
    ELSE IF /\ Head(models).identifier = id
            /\ Head(models).api_model_type = "embedding"
         THEN Head(models)
         ELSE FirstMatch_AnyProvider(Tail(models), id, prov)

get_embedding_model_AnyProvider(listing, id, prov) ==
    IF id = <<>>
    THEN [exc |-> ValueError("model id required"), model |-> NoModel, calls |-> <<>>]
    ELSE IF prov = <<>>
    THEN [exc |-> ValueError("provider required"), model |-> NoModel, calls |-> <<>>]
    ELSE LET listed == <<Call("models.list", <<>>, <<>>, <<>>, <<>>, 0)>>
             found == FirstMatch_AnyProvider(listing.models, id, prov)
         IN  IF listing.exc # NoExc
             THEN [exc |-> listing.exc, model |-> NoModel, calls |-> listed]
             ELSE IF found.py = "Model"
             THEN [exc |-> NoExc, model |-> found, calls |-> listed]
             ELSE [exc |-> ValueError("model not found"), model |-> NoModel, calls |-> listed]

get_embedding_model(listing, id, prov) ==
    IF id = <<>>
    THEN [exc |-> ValueError("model id required"), model |-> NoModel, calls |-> <<>>]
    ELSE IF prov = <<>>
    THEN [exc |-> ValueError("provider required"), model |-> NoModel, calls |-> <<>>]
    ELSE LET listed == <<Call("models.list", <<>>, <<>>, <<>>, <<>>, 0)>>
             found == FirstMatch(listing.models, id, prov)
         IN  IF listing.exc # NoExc
             THEN [exc |-> listing.exc, model |-> NoModel, calls |-> listed]
             ELSE IF found.py = "Model"
             THEN [exc |-> NoExc, model |-> found, calls |-> listed]
             ELSE [exc |-> ValueError("model not found"), model |-> NoModel, calls |-> listed]

\* ------------------------------------------------------ register_vector_db
\* register_vector_db(client, embedding_model, vector_db_id, provider_id).
\* remote is the exception client.vector_dbs.register raises, NoExc if none.
register_vector_db_NoDimCheck(remote, embedding_model, vector_db_id, provider_id) ==
    LET fail(m) == [exc |-> ValueError(m), ret |-> <<>>, calls |-> <<>>]
        call == <<Call("vector_dbs.register", vector_db_id, embedding_model.identifier,
                       provider_id, <<>>, 0)>>
    IN  IF vector_db_id = <<>> THEN fail("vector db id required")
        ELSE IF provider_id = <<>> THEN fail("provider id required")
        ELSE IF embedding_model.py = "NoneType" THEN fail("embedding model required")
        ELSE IF embedding_model.identifier = <<>> THEN fail("embedding model id required")
        ELSE IF embedding_model.api_model_type # "embedding" THEN fail("not an embedding model")
        ELSE IF embedding_model.metadata.kind # "dict" THEN fail("metadata must be a dictionary")
        ELSE IF ~embedding_model.metadata.has_dim
        THEN [exc |-> KeyError("embedding_dimension"), ret |-> <<>>, calls |-> <<>>]
        ELSE IF remote # NoExc THEN [exc |-> remote, ret |-> <<>>, calls |-> call]
        ELSE [exc |-> NoExc, ret |-> vector_db_id, calls |-> call]

register_vector_db(remote, embedding_model, vector_db_id, provider_id) ==
    LET fail(m) == [exc |-> ValueError(m), ret |-> <<>>, calls |-> <<>>]
        call == <<Call("vector_dbs.register", vector_db_id, embedding_model.identifier,
                       provider_id, <<>>, 0)>>
        \* metadata.get("embedding_dimension") is None when the key is absent
        dim == IF embedding_model.metadata.has_dim
               THEN embedding_model.metadata.dim ELSE "NoneType"
    IN  IF vector_db_id = <<>> THEN fail("vector db id required")
        ELSE IF provider_id = <<>> THEN fail("provider id required")
        ELSE IF embedding_model.py = "NoneType" THEN fail("embedding model required")
        ELSE IF embedding_model.identifier = <<>> THEN fail("embedding model id required")
        ELSE IF embedding_model.api_model_type # "embedding" THEN fail("not an embedding model")
        ELSE IF embedding_model.metadata.kind # "dict" THEN fail("metadata must be a dictionary")
        ELSE IF ~IsInstance(dim, {"str", "int", "float"})
        THEN fail("embedding_dimension must be a str, int or float")
        ELSE IF remote # NoExc THEN [exc |-> remote, ret |-> <<>>, calls |-> call]
        ELSE [exc |-> NoExc, ret |-> vector_db_id, calls |-> call]

\* ------------------------------------------------- load_documents_from_folder
E_txt == <<".", "t", "x", "t">>
E_md == <<".", "m", "d">>
E_py == <<".", "p", "y">>
E_json == <<".", "j", "s", "o", "n">>
E_html == <<".", "h", "t", "m", "l">>
E_csv == <<".", "c", "s", "v">>
DefaultExtensions == <<E_txt, E_md>>

\* get_mime_type(extension): dictionary lookup on the lower-cased extension
get_mime_type(extension) ==
    LET e == lower(extension)
    IN  IF e = E_txt THEN "text/plain"
        ELSE IF e = E_md THEN "text/markdown"
        ELSE IF e = E_py THEN "text/plain"
        ELSE IF e = E_json THEN "application/json"
        ELSE IF e = E_html THEN "text/html"
        ELSE IF e = E_csv THEN "text/csv"
        ELSE "text/plain"

InList(x, list) == \E i \in 1..Len(list) : list[i] = x

\* A child of the folder: its name, whether is_file() holds, whether the body
\* of the try block (open, read, stat) succeeds, and its content.
Child(name, is_file, readable, content) ==
    [name |-> name, is_file |-> is_file, readable |-> readable, content |-> content]

RAGDocument(child) ==
    [document_id |-> stem(child.name), content |-> child.content,
     mime_type |-> get_mime_type(suffix(child.name)), filename |-> child.name]

\* the for loop over folder.iterdir(), in the order of the listing
RECURSIVE LoadLoop_CaseSensitive(_, _)
LoadLoop_CaseSensitive(children, file_extensions) ==
    IF children = <<>> THEN <<>>
    ELSE LET c == Head(children)
             rest == LoadLoop_CaseSensitive(Tail(children), file_extensions)
         IN  IF c.is_file /\ InList(suffix(c.name), file_extensions)
             THEN IF c.readable THEN <<RAGDocument(c)>> \o rest ELSE rest
             ELSE rest

RECURSIVE LoadLoop_AbortOnError(_, _)
LoadLoop_AbortOnError(children, file_extensions) ==
    IF children = <<>> THEN <<>>
    ELSE LET c == Head(children)
         IN  IF c.is_file /\ InList(lower(suffix(c.name)), file_extensions)
             THEN IF c.readable
                  THEN <<RAGDocument(c)>> \o LoadLoop_AbortOnError(Tail(children), file_extensions)
                  ELSE <<>>
             ELSE LoadLoop_AbortOnError(Tail(children), file_extensions)

RECURSIVE LoadLoop(_, _)
LoadLoop(children, file_extensions) ==
    IF children = <<>> THEN <<>>
    ELSE LET c == Head(children)
             rest == LoadLoop(Tail(children), file_extensions)
         IN  IF c.is_file /\ InList(lower(suffix(c.name)), file_extensions)
             THEN IF c.readable THEN <<RAGDocument(c)>> \o rest ELSE rest
             ELSE rest

\* load_documents_from_folder(folder_path, file_extensions) on the file
\* system state folder = [exists, is_dir, children]
load_documents_from_folder(folder, file_extensions) ==
    IF ~folder.exists THEN [exc |-> NoExc, documents |-> <<>>]
    ELSE IF ~folder.is_dir
    THEN [exc |-> OSError("not a directory"), documents |-> <<>>]
    ELSE [exc |-> NoExc, documents |-> LoadLoop(folder.children, file_extensions)]

\* ---------------------------------------------------------- insert_documents
\* insert_documents(client, documents, vector_db_id, chunk_size_in_tokens).
\* remote is the exception rag_tool.insert raises, NoExc if none.
insert_documents_NoEmptyCheck(remote, documents, vector_db_id, chunk_size_in_tokens) ==
    [exc |-> remote,
     calls |-> <<Call("rag_tool.insert", vector_db_id, <<>>, <<>>, documents,
                      chunk_size_in_tokens)>>]

insert_documents(remote, documents, vector_db_id, chunk_size_in_tokens) ==
    IF documents = <<>> THEN [exc |-> NoExc, calls |-> <<>>]
    ELSE [exc |-> remote,
          calls |-> <<Call("rag_tool.insert", vector_db_id, <<>>, <<>>, documents,
                           chunk_size_in_tokens)>>]

\* ------------------------------------------------------------ main: config
\* an environment variable or command-line option: unset, or set to a text
Unset == [set |-> FALSE, val |-> <<>>]
Set(s) == [set |-> TRUE, val |-> s]
\* os.environ.get(name, default) and the argparse default
Get(v, default) == IF v.set THEN v.val ELSE default

\* lines 183-194: the value of delay_seconds for the --delay option
ParseDelay_FallbackZero(delay) ==
    LET parsed == int(Get(delay, <<"0">>))
    IN  IF parsed.ok /\ parsed.val >= 0 THEN parsed.val ELSE 0

ParseDelay(delay) ==
    LET parsed == int(Get(delay, <<"0">>))
    IN  IF parsed.ok /\ parsed.val >= 0 THEN parsed.val ELSE DEFAULT_DELAY_SECONDS

S_512 == <<"5", "1", "2">>
S_false == <<"f", "a", "l", "s", "e">>
S_docs == <<".", "/", "d", "o", "c", "s">>
TruthyTexts == {<<"t", "r", "u", "e">>, <<"1">>, <<"y", "e", "s">>}

\* lines 199-232: the environment is read and checked in this order
ReadConfig(e) ==
    LET chunk == int(Get(e.CHUNK_SIZE_IN_TOKENS, S_512))
        cfg(x) == [exc |-> x,
                   embedding_model_id |-> e.EMBEDDING_MODEL.val,
                   embedding_model_provider |-> e.EMBEDDING_MODEL_PROVIDER.val,
                   chunk_size_in_tokens |-> chunk.val,
                   host |-> e.LLAMA_STACK_HOST.val,
                   port |-> e.LLAMA_STACK_PORT.val,
                   secure |-> lower(Get(e.LLAMA_STACK_SECURE, S_false)) \in TruthyTexts,
                   docs_folder |-> Get(e.DOCS_FOLDER, S_docs)]
    IN  IF ~e.EMBEDDING_MODEL.set THEN cfg(ValueError("EMBEDDING_MODEL must be set"))
        ELSE IF ~e.EMBEDDING_DIMENSION.set THEN cfg(ValueError("EMBEDDING_DIMENSION must be set"))
        ELSE IF ~e.EMBEDDING_MODEL_PROVIDER.set
        THEN cfg(ValueError("EMBEDDING_MODEL_PROVIDER must be set"))
        ELSE IF ~chunk.ok THEN cfg(ValueError("invalid literal for int()"))
        ELSE IF Get(e.LLAMA_STACK_HOST, <<>>) = <<>>
        THEN cfg(ValueError("LLAMA_STACK_HOST must be set"))
        ELSE IF Get(e.LLAMA_STACK_PORT, <<>>) = <<>>
        THEN cfg(ValueError("LLAMA_STACK_PORT must be set"))
        ELSE IF Get(e.DOCS_FOLDER, S_docs) = <<>>
        THEN cfg(ValueError("DOCS_FOLDER must be set"))
        ELSE cfg(NoExc)

\* line 242: the print that reads embedding_model.metadata['embedding_dimension']
PrintModel(model) ==
    IF model.metadata.kind # "dict" THEN TypeError("metadata is not subscriptable")
    ELSE IF ~model.metadata.has_dim THEN KeyError("embedding_dimension")
    ELSE NoExc

\* one thing main() prints or does at its end
Event(op, n, e) == [op |-> op, n |-> n, exc |-> e]

\* lines 252-257: the except clause
ExceptHandler_Swallow(e, delay) ==
    <<Event("print_error", 0, e)>>
    \o (IF delay > 0 THEN <<Event("sleep", delay, NoExc)>> ELSE <<>>)

ExceptHandler_AlwaysSleep(e, delay) ==
    <<Event("print_error", 0, e)>>
    \o <<Event("sleep", delay, NoExc)>>
    \o <<Event("raise", 0, e)>>

ExceptHandler(e, delay) ==
    <<Event("print_error", 0, e)>>
    \o (IF delay > 0 THEN <<Event("sleep", delay, NoExc)>> ELSE <<>>)
    \o <<Event("raise", 0, e)>>

\* ------------------------------------------------------------------ inputs
SeqsUpTo(S, n) == UNION {[1..k -> S] : k \in 0..n}

S_m1 == <<"m", "1">>
S_m2 == <<"m", "2">>
S_p1 == <<"p", "1">>
S_p2 == <<"p", "2">>
S_localhost == <<"l", "o", "c", "a", "l", "h", "o", "s", "t">>
S_milvus_db == <<"m", "i", "l", "v", "u", "s", "_", "d", "b">>
S_milvus == <<"m", "i", "l", "v", "u", "s">>

DimStr == Metadata("dict", TRUE, "str")
DimInt == Metadata("dict", TRUE, "int")
DimNone == Metadata("dict", TRUE, "NoneType")
DimMissing == Metadata("dict", FALSE, "NoneType")

\* the models the remote service may list
RemoteModels ==
    {Model(S_m1, S_p1, "embedding", DimStr),
     Model(S_m1, S_p1, "embedding", DimNone),
     Model(S_m1, S_p2, "embedding", DimInt),
     Model(S_m1, S_p1, "llm", DimMissing)}

\* the models a caller may hand to register_vector_db
ArgModels ==
    RemoteModels \cup
    {NoModel,
     Model(<<>>, S_p1, "embedding", DimStr),
     Model(S_m1, S_p1, "embedding", NoMetadata),
     Model(S_m1, S_p1, "embedding", Metadata("list", FALSE, "NoneType")),
     Model(S_m1, S_p1, "embedding", Metadata("dict", TRUE, "float")),
     Model(S_m1, S_p1, "embedding", Metadata("dict", TRUE, "bool")),
     Model(S_m1, S_p1, "embedding", Metadata("dict", TRUE, "list")),
     Model(S_m1, S_p1, "embedding", DimMissing)}

\* what client.models.list() may answer
Listings ==
    {[exc |-> APIError("models.list"), models |-> <<>>]}
    \cup {[exc |-> NoExc, models |-> m] : m \in SeqsUpTo(RemoteModels, MaxModels)}
NoListing == [exc |-> NoExc, models |-> <<>>]

Children ==
    {Child(<<"a", ".", "t", "x", "t">>, TRUE, TRUE, <<"x">>),
     Child(<<"b", ".", "t", "a", "r", ".", "M", "D">>, TRUE, TRUE, <<"y", "y">>),
     Child(<<"c", ".", "p", "y">>, TRUE, TRUE, <<"z">>),
     Child(<<"d", ".", "t", "x", "t">>, FALSE, TRUE, <<>>),
     Child(<<"e", ".", "m", "d">>, TRUE, FALSE, <<"w">>)}

Folder(exists, is_dir, children) ==
    [exists |-> exists, is_dir |-> is_dir, children |-> children]
NoFolder == Folder(FALSE, FALSE, <<>>)
\* the docs folder: absent, a regular file, or a directory whose listing
\* names each child once
Folders ==
    {NoFolder, Folder(TRUE, FALSE, <<>>)}
    \cup {Folder(TRUE, TRUE, c) : c \in
            {l \in SeqsUpTo(Children, MaxFiles) :
                \A i, j \in 1..Len(l) : i # j => l[i].name # l[j].name}}

RemoteOutcomes(api) == {NoExc, APIError(api)}

DelayArgs == {Unset, Set(<<" ", "2">>), Set(<<"-", "1">>), Set(<<"x">>)}

Envs ==
    [EMBEDDING_MODEL : {Unset, Set(<<>>), Set(S_m1)},
     EMBEDDING_DIMENSION : {Unset, Set(<<"7", "6", "8">>)},
     EMBEDDING_MODEL_PROVIDER : {Unset, Set(<<>>), Set(S_p1)},
     CHUNK_SIZE_IN_TOKENS : {Unset, Set(<<"2", "5", "6">>), Set(<<"x">>)},
     LLAMA_STACK_HOST : {Unset, Set(<<>>), Set(S_localhost)},
     LLAMA_STACK_PORT : {Unset, Set(<<>>), Set(<<"8", "0">>), Set(<<"0">>), Set(<<"x">>)},
     LLAMA_STACK_SECURE : {Unset, Set(<<"Y", "e", "s">>)},
     DOCS_FOLDER : {Unset, Set(<<>>)}]
NoEnv ==
    [EMBEDDING_MODEL |-> Unset, EMBEDDING_DIMENSION |-> Unset,
     EMBEDDING_MODEL_PROVIDER |-> Unset, CHUNK_SIZE_IN_TOKENS |-> Unset,
     LLAMA_STACK_HOST |-> Unset, LLAMA_STACK_PORT |-> Unset,
     LLAMA_STACK_SECURE |-> Unset, DOCS_FOLDER |-> Unset]

\* arguments of a direct call of one function
NoArgs ==
    [host |-> <<>>, port |-> 0, secure |-> FALSE,
     embedding_model_id |-> <<>>, embedding_model_provider |-> <<>>,
     embedding_model |-> NoModel, vector_db_id |-> <<>>, provider_id |-> <<>>,
     file_extensions |-> <<>>, documents |-> <<>>, chunk_size_in_tokens |-> 0]

Ports == {0 - 1, 0, 1, 80, 65535, 65536}
ArgDocuments ==
    {<<>>,
     <<RAGDocument(Child(<<"a", ".", "t", "x", "t">>, TRUE, TRUE, <<"x">>))>>,
     <<RAGDocument(Child(<<"a", ".", "t", "x", "t">>, TRUE, TRUE, <<"x">>)),
       RAGDocument(Child(<<"b", ".", "t", "a", "r", ".", "M", "D">>, TRUE, TRUE, <<"y", "y">>))>>}

ArgsOf(e) ==
    IF e = "create_client"
    THEN {[NoArgs EXCEPT !.host = h, !.port = p, !.secure = s] :
            h \in {<<>>, S_localhost}, p \in Ports, s \in BOOLEAN}
    ELSE IF e = "get_embedding_model"
    THEN {[NoArgs EXCEPT !.embedding_model_id = i, !.embedding_model_provider = p] :
            i \in {<<>>, S_m1, S_m2}, p \in {<<>>, S_p1, S_p2}}
    ELSE IF e = "register_vector_db"
    THEN {[NoArgs EXCEPT !.embedding_model = m, !.vector_db_id = v, !.provider_id = p] :
            m \in ArgModels, v \in {<<>>, S_milvus_db}, p \in {<<>>, S_milvus}}
    ELSE IF e = "load_documents_from_folder"
    THEN {[NoArgs EXCEPT !.file_extensions = x] :
            x \in {DefaultExtensions, <<E_py>>, <<<<".", "M", "D">>>>, <<>>}}
    ELSE IF e = "insert_documents"
    THEN {[NoArgs EXCEPT !.documents = d, !.vector_db_id = S_milvus_db,
                         !.chunk_size_in_tokens = c] :
            d \in ArgDocuments, c \in {256, 512}}
    ELSE {NoArgs}

Entries == {"main", "create_client", "get_embedding_model", "register_vector_db",
            "load_documents_from_folder", "insert_documents"}

\* ------------------------------------------------------------------- state
VARIABLES
    entry,                    \* the function the process runs: main or one helper
    pc,                       \* position of the run
    argv,                     \* the --delay option
    env,                      \* the environment variables
    args,                     \* the arguments of a direct call
    delay_seconds,            \* main's local
    embedding_model_id,       \* main's locals read from the environment
    embedding_model_provider,
    chunk_size_in_tokens,
    host,
    port,
    secure,
    docs_folder,
    models,                   \* the answer of client.models.list()
    embedding_model,          \* the model get_embedding_model returned
    vector_db_id,             \* the id register_vector_db returned
    folder,                   \* the docs folder as the scan found it
    documents,                \* the list load_documents_from_folder returned
    exc,                      \* the exception caught by main's except clause
    raised,                   \* the exception that left the function run
    steps,                    \* the steps of main started so far
    clients,                  \* base URLs of the clients constructed
    calls,                    \* invocations of the remote API
    out                       \* what main printed, slept and raised at its end

vars == <<entry, pc, argv, env, args, delay_seconds, embedding_model_id,
          embedding_model_provider, chunk_size_in_tokens, host, port, secure,
          docs_folder, models, embedding_model, vector_db_id, folder, documents,
          exc, raised, steps, clients, calls, out>>

config == <<embedding_model_id, embedding_model_provider, chunk_size_in_tokens,
            host, port, secure, docs_folder>>
inputs == <<entry, argv, env, args>>

Init ==
    /\ entry \in Entries
    /\ pc = IF entry = "main" THEN "parse_delay" ELSE "call"
    /\ argv \in (IF entry = "main" THEN DelayArgs ELSE {Unset})
    /\ env \in (IF entry = "main" THEN Envs ELSE {NoEnv})
    /\ args \in ArgsOf(entry)
    /\ delay_seconds = 0
    /\ embedding_model_id = <<>>
    /\ embedding_model_provider = <<>>
    /\ chunk_size_in_tokens = 0
    /\ host = <<>>
    /\ port = <<>>
    /\ secure = FALSE
    /\ docs_folder = <<>>
    /\ models = NoListing
    /\ embedding_model = NoModel
    /\ vector_db_id = <<>>
    /\ folder = NoFolder
    /\ documents = <<>>
    /\ exc = NoExc
    /\ raised = NoExc
    /\ steps = <<>>
    /\ clients = <<>>
    /\ calls = <<>>
    /\ out = <<>>

\* -------------------------------------------------------------------- main
\* the statement order of main's try block (lines 199-251)
After_LoadBeforeRegister(step) ==
    IF step = "read_config" THEN "create_client"
    ELSE IF step = "create_client" THEN "get_embedding_model"
    ELSE IF step = "get_embedding_model" THEN "load_documents_from_folder"
    ELSE IF step = "load_documents_from_folder" THEN "register_vector_db"
    ELSE IF step = "register_vector_db" THEN "insert_documents"
    ELSE IF step = "insert_documents" THEN "report"
    ELSE "done"

After(step) ==
    IF step = "read_config" THEN "create_client"
    ELSE IF step = "create_client" THEN "get_embedding_model"
    ELSE IF step = "get_embedding_model" THEN "register_vector_db"
    ELSE IF step = "register_vector_db" THEN "load_documents_from_folder"
    ELSE IF step = "load_documents_from_folder" THEN "insert_documents"
    ELSE IF step = "insert_documents" THEN "report"
    ELSE "done"

\* a step of the try block ends: on an exception control passes to the
\* except clause, otherwise to the next statement
Continue(step, e) ==
    /\ exc' = e
    /\ pc' = IF e # NoExc THEN "except" ELSE After(step)
    /\ steps' = Append(steps, step)

\* lines 183-196
MainParseDelay ==
    /\ entry = "main" /\ pc = "parse_delay"
    /\ delay_seconds' = ParseDelay(argv)
    /\ pc' = "read_config"
    /\ UNCHANGED <<inputs, config, models, embedding_model, vector_db_id, folder,
                   documents, exc, raised, steps, clients, calls, out>>

\* lines 199-232
MainReadConfig ==
    /\ entry = "main" /\ pc = "read_config"
    /\ LET r == ReadConfig(env)
       IN  /\ Continue("read_config", r.exc)
           /\ IF r.exc = NoExc
              THEN /\ embedding_model_id' = r.embedding_model_id
                   /\ embedding_model_provider' = r.embedding_model_provider
                   /\ chunk_size_in_tokens' = r.chunk_size_in_tokens
                   /\ host' = r.host
                   /\ port' = r.port
                   /\ secure' = r.secure
                   /\ docs_folder' = r.docs_folder
              ELSE UNCHANGED config
    /\ UNCHANGED <<inputs, delay_seconds, models, embedding_model, vector_db_id,
                   folder, documents, raised, clients, calls, out>>

\* lines 235-236
MainCreateClient ==
    /\ entry = "main" /\ pc = "create_client"
    /\ LET p == int(port)
           r == IF p.ok THEN create_client(host, p.val, secure)
                ELSE [exc |-> ValueError("invalid literal for int()"), base_url |-> <<>>]
       IN  /\ Continue("create_client", r.exc)
           /\ clients' = IF r.exc = NoExc THEN Append(clients, r.base_url) ELSE clients
    /\ UNCHANGED <<inputs, delay_seconds, config, models, embedding_model,
                   vector_db_id, folder, documents, raised, calls, out>>

\* lines 239-242
MainGetEmbeddingModel ==
    /\ entry = "main" /\ pc = "get_embedding_model"
    /\ \E listing \in Listings :
        LET r == get_embedding_model(listing, embedding_model_id, embedding_model_provider)
            e == IF r.exc # NoExc THEN r.exc
                 ELSE IF r.model.py = "NoneType" THEN ValueError("model not found")
                 ELSE PrintModel(r.model)
        IN  /\ Continue("get_embedding_model", e)
            /\ models' = IF r.calls # <<>> THEN listing ELSE NoListing
            /\ embedding_model' = r.model
            /\ calls' = calls \o r.calls
    /\ UNCHANGED <<inputs, delay_seconds, config, vector_db_id, folder, documents,
                   raised, clients, out>>

\* line 243
MainRegisterVectorDb ==
    /\ entry = "main" /\ pc = "register_vector_db"
    /\ \E remote \in RemoteOutcomes("vector_dbs.register") :
        LET r == register_vector_db(remote, embedding_model, S_milvus_db, S_milvus)
        IN  /\ Continue("register_vector_db", r.exc)
            /\ vector_db_id' = r.ret
            /\ calls' = calls \o r.calls
    /\ UNCHANGED <<inputs, delay_seconds, config, models, embedding_model, folder,
                   documents, raised, clients, out>>

\* line 246
MainLoadDocuments ==
    /\ entry = "main" /\ pc = "load_documents_from_folder"
    /\ \E f \in Folders :
        LET r == load_documents_from_folder(f, DefaultExtensions)
        IN  /\ Continue("load_documents_from_folder", r.exc)
            /\ folder' = f
            /\ documents' = r.documents
    /\ UNCHANGED <<inputs, delay_seconds, config, models, embedding_model,
                   vector_db_id, raised, clients, calls, out>>

\* line 249: the chunk size passed is the literal 512
MainInsertDocuments ==
    /\ entry = "main" /\ pc = "insert_documents"
    /\ \E remote \in RemoteOutcomes("rag_tool.insert") :
        LET r == insert_documents(remote, documents, vector_db_id, 512)
        IN  /\ Continue("insert_documents", r.exc)
            /\ calls' = calls \o r.calls
    /\ UNCHANGED <<inputs, delay_seconds, config, models, embedding_model,
                   vector_db_id, folder, documents, raised, clients, out>>

\* line 251, after which main returns
MainReport ==
    /\ entry = "main" /\ pc = "report"
    /\ out' = Append(out, Event("report", chunk_size_in_tokens, NoExc))
    /\ steps' = Append(steps, "report")
    /\ pc' = After("report")
    /\ UNCHANGED <<inputs, delay_seconds, config, models, embedding_model,
                   vector_db_id, folder, documents, exc, raised, clients, calls>>

\* lines 252-257
MainExcept ==
    /\ entry = "main" /\ pc = "except"
    /\ LET h == ExceptHandler(exc, delay_seconds)
           last == h[Len(h)]
       IN  /\ out' = out \o h
           /\ raised' = IF last.op = "raise" THEN last.exc ELSE NoExc
           /\ pc' = IF last.op = "raise" THEN "raised" ELSE "done"
    /\ UNCHANGED <<inputs, delay_seconds, config, models, embedding_model,
                   vector_db_id, folder, documents, exc, steps, clients, calls>>

\* ------------------------------------------------------------ direct calls
Return(e) ==
    /\ raised' = e
    /\ pc' = IF e # NoExc THEN "raised" ELSE "returned"

CallCreateClient ==
    /\ entry = "create_client" /\ pc = "call"
    /\ LET r == create_client(args.host, args.port, args.secure)
       IN  /\ Return(r.exc)
           /\ clients' = IF r.exc = NoExc THEN Append(clients, r.base_url) ELSE clients
    /\ UNCHANGED <<inputs, delay_seconds, config, models, embedding_model,
                   vector_db_id, folder, documents, exc, steps, calls, out>>

CallGetEmbeddingModel ==
    /\ entry = "get_embedding_model" /\ pc = "call"
    /\ \E listing \in Listings :
        LET r == get_embedding_model(listing, args.embedding_model_id,
                                     args.embedding_model_provider)
        IN  /\ Return(r.exc)
            /\ models' = IF r.calls # <<>> THEN listing ELSE NoListing
            /\ embedding_model' = r.model
            /\ calls' = calls \o r.calls
    /\ UNCHANGED <<inputs, delay_seconds, config, vector_db_id, folder, documents,
                   exc, steps, clients, out>>

CallRegisterVectorDb ==
    /\ entry = "register_vector_db" /\ pc = "call"
    /\ \E remote \in RemoteOutcomes("vector_dbs.register") :
        LET r == register_vector_db(remote, args.embedding_model, args.vector_db_id,
                                    args.provider_id)
        IN  /\ Return(r.exc)
            /\ vector_db_id' = r.ret
            /\ calls' = calls \o r.calls
    /\ UNCHANGED <<inputs, delay_seconds, config, models, embedding_model, folder,
                   documents, exc, steps, clients, out>>

CallLoadDocuments ==
    /\ entry = "load_documents_from_folder" /\ pc = "call"
    /\ \E f \in Folders :
        LET r == load_documents_from_folder(f, args.file_extensions)
        IN  /\ Return(r.exc)
            /\ folder' = f
            /\ documents' = r.documents
    /\ UNCHANGED <<inputs, delay_seconds, config, models, embedding_model,
                   vector_db_id, exc, steps, clients, calls, out>>

CallInsertDocuments ==
    /\ entry = "insert_documents" /\ pc = "call"
    /\ \E remote \in RemoteOutcomes("rag_tool.insert") :
        LET r == insert_documents(remote, args.documents, args.vector_db_id,
                                  args.chunk_size_in_tokens)
        IN  /\ Return(r.exc)
            /\ calls' = calls \o r.calls
    /\ UNCHANGED <<inputs, delay_seconds, config, models, embedding_model,
                   vector_db_id, folder, documents, exc, steps, clients, out>>

Next ==
    \/ MainParseDelay
    \/ MainReadConfig
    \/ MainCreateClient
    \/ MainGetEmbeddingModel
    \/ MainRegisterVectorDb
    \/ MainLoadDocuments
    \/ MainInsertDocuments
    \/ MainReport
    \/ MainExcept
    \/ CallCreateClient
    \/ CallGetEmbeddingModel
    \/ CallRegisterVectorDb
    \/ CallLoadDocuments
    \/ CallInsertDocuments

Spec == Init /\ [][Next]_vars

\* -------------------------------------------------------------- properties
IsPrefix(s, t) == Len(s) <= Len(t) /\ s = SubSeq(t, 1, Len(s))
CallsOf(api) == SelectSeq(calls, LAMBDA c : c.api = api)
EventsOf(op) == SelectSeq(out, LAMBDA ev : ev.op = op)
Apis == [i \in 1..Len(calls) |-> calls[i].api]
MainOrder == <<"read_config", "create_client", "get_embedding_model",
               "register_vector_db", "load_documents_from_folder",
               "insert_documents", "report">>
ApiOrder == <<"models.list", "vector_dbs.register", "rag_tool.insert">>
Ended == pc \in {"done", "raised"}

\* C1: in a run of main() the steps start in the fixed order read config,
\* create client, resolve model, register database, scan folder, upload,
\* report; a step starts only when all earlier steps completed without an
\* exception; insert is invoked only after a registration that returned, and
\* register only after a model was resolved.
C1_FixedOrder ==
    entry = "main" =>
        /\ IsPrefix(steps, MainOrder)
        /\ IsPrefix(Apis, ApiOrder)
        /\ \A k \in 1..Len(MainOrder) :
             pc = MainOrder[k] => exc = NoExc /\ steps = SubSeq(MainOrder, 1, k - 1)
        /\ exc # NoExc => pc \in {"except", "raised"}
        /\ CallsOf("models.list") # <<>> => Len(clients) = 1
        /\ CallsOf("vector_dbs.register") # <<>> =>
             /\ embedding_model.py = "Model"
             /\ Len(steps) >= 4 /\ steps[3] = "get_embedding_model"
        /\ CallsOf("rag_tool.insert") # <<>> =>
             /\ vector_db_id = S_milvus_db
             /\ Len(steps) >= 6 /\ steps[4] = "register_vector_db"
        /\ EventsOf("report") # <<>> => steps = MainOrder

C1_Witness ==
    /\ entry = "main" /\ pc = "done"
    /\ steps = MainOrder
    /\ Apis = ApiOrder

\* a file of the scanned folder whose read failed
Matches(c, file_extensions) ==
    c.is_file /\ \E i \in 1..Len(file_extensions) :
                    file_extensions[i] = lower(suffix(c.name))
ReadFailed ==
    /\ Len(steps) >= 5
    /\ \E i \in 1..Len(folder.children) :
         Matches(folder.children[i], DefaultExtensions) /\ ~folder.children[i].readable

\* C2 as stated: whenever any step of main() fails, the reading of a document
\* file included, main() ends by re-raising that failure and never with the
\* success report.
C2_Original ==
    (entry = "main" /\ Ended) =>
        ((exc # NoExc \/ ReadFailed) =>
            /\ pc = "raised" /\ raised # NoExc /\ raised = exc
            /\ EventsOf("report") = <<>>)

\* C2 amended: a failure of configuration reading, client construction, model
\* resolution, registration, the folder scan or the upload reaches the except
\* clause, is printed and re-raised as the same exception, and such a run has
\* no success report; a failed read of one document file is caught inside
\* load_documents_from_folder and does not end the run.
C2_Amended ==
    (entry = "main" /\ Ended) =>
        /\ exc # NoExc =>
             /\ pc = "raised" /\ raised = exc
             /\ EventsOf("report") = <<>>
             /\ out[1] = Event("print_error", 0, exc)
             /\ out[Len(out)] = Event("raise", 0, exc)
        /\ exc = NoExc =>
             /\ pc = "done" /\ raised = NoExc
             /\ steps = MainOrder
             /\ out = <<Event("report", chunk_size_in_tokens, NoExc)>>
        /\ ReadFailed => Len(steps) >= 6 /\ steps[6] = "insert_documents"

C2_Witness ==
    /\ entry = "main" /\ pc = "raised"
    /\ exc = APIError("rag_tool.insert")
    /\ raised = exc
    /\ ReadFailed

C4_ChunkSize ==
    entry = "main" =>
        \A i \in 1..Len(calls) :
            calls[i].api = "rag_tool.insert" =>
                /\ ~env.CHUNK_SIZE_IN_TOKENS.set => calls[i].chunk_size_in_tokens = 512
                /\ env.CHUNK_SIZE_IN_TOKENS = Set(<<"2", "5", "6">>) =>
                        calls[i].chunk_size_in_tokens = 256
                /\ \A j \in 1..Len(out) :
                        out[j].op = "report" => out[j].n = calls[i].chunk_size_in_tokens

\* a required variable is missing, or one that must be non-empty is empty
MissingConfig ==
    \/ ~env.EMBEDDING_MODEL.set
    \/ ~env.EMBEDDING_DIMENSION.set
    \/ ~env.EMBEDDING_MODEL_PROVIDER.set
    \/ ~env.LLAMA_STACK_HOST.set
    \/ ~env.LLAMA_STACK_PORT.set
    \/ env.LLAMA_STACK_HOST = Set(<<>>)
    \/ env.LLAMA_STACK_PORT = Set(<<>>)
    \/ env.EMBEDDING_MODEL = Set(<<>>)
    \/ env.EMBEDDING_MODEL_PROVIDER = Set(<<>>)

\* C5: with a required environment variable missing, or host, port, model or
\* provider empty, main() makes no remote API call and ends with an error.
C5_NoRemoteCall ==
    (entry = "main" /\ MissingConfig) =>
        /\ calls = <<>>
        /\ pc # "done"
        /\ Ended => (pc = "raised" /\ raised.type = "ValueError")

C5_Witness ==
    /\ entry = "main" /\ pc = "raised"
    /\ env.EMBEDDING_MODEL = Set(<<>>)
    /\ Len(clients) = 1
    /\ calls = <<>>

\* the text after the last colon of a base URL, and the text before it
UrlPort(u) == SubSeq(u, rfind(u, ":") + 1, Len(u))
UrlOrigin(u) == SubSeq(u, 1, rfind(u, ":") - 1)

\* C6: create_client raises ValueError and constructs no client for a port
\* outside 1..65535 or an empty host; otherwise it constructs exactly one
\* client with base URL <protocol>://<host>:<port>, https when secure is true
\* and http otherwise.
C6_CreateClient ==
    /\ (entry = "create_client" /\ pc # "call") =>
         IF args.port < 1 \/ args.port > 65535 \/ args.host = <<>>
         THEN pc = "raised" /\ raised.type = "ValueError" /\ clients = <<>>
         ELSE /\ pc = "returned" /\ raised = NoExc
              /\ Len(clients) = 1
              /\ UrlOrigin(clients[1]) =
                    (IF args.secure THEN <<"h", "t", "t", "p", "s">> ELSE <<"h", "t", "t", "p">>)
                    \o <<":", "/", "/">> \o args.host
              /\ \A i \in 1..Len(UrlPort(clients[1])) : IsDigit(UrlPort(clients[1])[i])
              /\ DigitsVal(UrlPort(clients[1])) = args.port
              /\ Head(UrlPort(clients[1])) # "0"
    /\ (entry = "main" /\ Len(steps) >= 2) =>
         IF env.LLAMA_STACK_PORT \in {Set(<<"0">>), Set(<<"x">>)}
         THEN clients = <<>> /\ exc.type = "ValueError"
         ELSE clients = <<(IF env.LLAMA_STACK_SECURE.set
                           THEN <<"h", "t", "t", "p", "s">> ELSE <<"h", "t", "t", "p">>)
                          \o <<":", "/", "/">> \o env.LLAMA_STACK_HOST.val
                          \o <<":">> \o env.LLAMA_STACK_PORT.val>>

C6_Witness ==
    /\ entry = "create_client" /\ pc = "raised"
    /\ args.port = 0 /\ args.host # <<>>
    /\ clients = <<>>

\* the model has a non-empty identifier, is an embedding model, and its
\* metadata is a dictionary whose embedding_dimension is a str, int or float
\* (a bool is an int)
WellFormed(m) ==
    /\ m.py = "Model"
    /\ m.identifier # <<>>
    /\ m.api_model_type = "embedding"
    /\ m.metadata.kind = "dict"
    /\ m.metadata.has_dim
    /\ m.metadata.dim \in {"str", "int", "float", "bool"}

\* C7: vector_dbs.register is invoked only for a well-formed embedding model
\* and non-empty vector_db_id and provider_id; in every other case
\* register_vector_db raises ValueError without the call, and a run of main()
\* with such a model performs no registration and no insert.
C7_Register ==
    /\ (entry = "register_vector_db" /\ pc # "call") =>
         IF WellFormed(args.embedding_model) /\ args.vector_db_id # <<>> /\ args.provider_id # <<>>
         THEN calls = <<Call("vector_dbs.register", args.vector_db_id,
                             args.embedding_model.identifier, args.provider_id, <<>>, 0)>>
         ELSE calls = <<>> /\ pc = "raised" /\ raised.type = "ValueError"
    /\ (entry = "main" /\ Len(steps) >= 4) =>
         IF WellFormed(embedding_model)
         THEN CallsOf("vector_dbs.register") =
                <<Call("vector_dbs.register", S_milvus_db, embedding_model.identifier,
                       S_milvus, <<>>, 0)>>
         ELSE /\ CallsOf("vector_dbs.register") = <<>>
              /\ CallsOf("rag_tool.insert") = <<>>
              /\ exc # NoExc
    /\ (entry = "main" /\ CallsOf("vector_dbs.register") # <<>>) => WellFormed(embedding_model)

C7_Witness ==
    /\ entry = "register_vector_db" /\ pc = "raised"
    /\ args.embedding_model = Model(S_m1, S_p1, "embedding", DimNone)
    /\ args.vector_db_id # <<>> /\ args.provider_id # <<>>
    /\ raised.type = "ValueError"
    /\ calls = <<>>

\* model k of the listing satisfies the three conditions
Satisfies(m, id, prov) ==
    m.identifier = id /\ m.provider_id = prov /\ m.api_model_type = "embedding"
\* the result of get_embedding_model for a listing that was answered
FirstSatisfying(id, prov, result, failure) ==
    LET ms == models.models
        hits == {k \in 1..Len(ms) : Satisfies(ms[k], id, prov)}
    IN  IF hits = {}
        THEN result = NoModel /\ failure.type = "ValueError"
        ELSE /\ \E k \in hits : result = ms[k] /\ \A j \in hits : k <= j
             /\ Satisfies(result, id, prov)

\* C8: for non-empty id and provider get_embedding_model returns the first
\* listed model whose identifier, provider_id and api_model_type "embedding"
\* all match, and raises ValueError, returning no model, when none does.
C8_FirstMatch ==
    /\ (/\ entry = "get_embedding_model" /\ pc # "call"
        /\ args.embedding_model_id # <<>> /\ args.embedding_model_provider # <<>>
        /\ models.exc = NoExc) =>
         /\ FirstSatisfying(args.embedding_model_id, args.embedding_model_provider,
                            embedding_model, raised)
         /\ (pc = "returned") = (embedding_model # NoModel)
    /\ (/\ entry = "main" /\ Len(steps) >= 3
        /\ embedding_model_id # <<>> /\ embedding_model_provider # <<>>
        /\ models.exc = NoExc) =>
         FirstSatisfying(embedding_model_id, embedding_model_provider, embedding_model, exc)

C8_Witness ==
    /\ entry = "get_embedding_model" /\ pc = "returned"
    /\ models.models = <<Model(S_m1, S_p2, "embedding", DimInt),
                         Model(S_m1, S_p1, "embedding", DimStr)>>
    /\ embedding_model = Model(S_m1, S_p1, "embedding", DimStr)

\* the scanned folder holds no readable file with a matching extension
NothingToLoad ==
    \/ ~folder.exists
    \/ /\ folder.is_dir
       /\ \A i \in 1..Len(folder.children) :
            ~(Matches(folder.children[i], DefaultExtensions) /\ folder.children[i].readable)

\* C9: a run of main() calls rag_tool.insert at most once, and exactly once,
\* with the whole list of loaded documents, iff every earlier step succeeded
\* and at least one document was loaded; when the docs folder is absent or
\* holds no readable matching file there is no insert and main() returns
\* normally.
C9_InsertOnce ==
    entry = "main" =>
        /\ Len(CallsOf("rag_tool.insert")) <= 1
        /\ Len(steps) >= 6 =>
             /\ (Len(CallsOf("rag_tool.insert")) = 1) = (documents # <<>>)
             /\ documents # <<>> =>
                  /\ CallsOf("rag_tool.insert")[1].documents = documents
                  /\ CallsOf("rag_tool.insert")[1].vector_db_id = S_milvus_db
        /\ Len(steps) < 6 => CallsOf("rag_tool.insert") = <<>>
        /\ (Len(steps) >= 5 /\ NothingToLoad) =>
             /\ CallsOf("rag_tool.insert") = <<>>
             /\ exc = NoExc
             /\ Ended => (pc = "done" /\ raised = NoExc)

C9_Witness ==
    /\ entry = "main" /\ pc = "done"
    /\ folder.exists /\ Len(folder.children) = 2
    /\ NothingToLoad
    /\ CallsOf("rag_tool.insert") = <<>>

\* the positions of the listing whose file is loaded
Loaded(file_extensions) ==
    {i \in 1..Len(folder.children) :
        Matches(folder.children[i], file_extensions) /\ folder.children[i].readable}
Matching(file_extensions) ==
    {i \in 1..Len(folder.children) : Matches(folder.children[i], file_extensions)}
Failed(file_extensions) ==
    {i \in 1..Len(folder.children) :
        Matches(folder.children[i], file_extensions) /\ ~folder.children[i].readable}

\* the documents are those of the loaded files, one each, in listing order
OneDocumentPerFile(file_extensions) ==
    /\ Len(documents) = Cardinality(Loaded(file_extensions))
    /\ Len(documents) = Cardinality(Matching(file_extensions))
                        - Cardinality(Failed(file_extensions))
    /\ \A i \in Loaded(file_extensions) :
         Cardinality({k \in 1..Len(documents) :
                        documents[k].filename = folder.children[i].name}) = 1
    /\ \A k \in 1..Len(documents) :
         /\ \E i \in Loaded(file_extensions) :
              /\ documents[k].filename = folder.children[i].name
              /\ documents[k].content = folder.children[i].content
         /\ \E x \in 1..Len(file_extensions) :
              /\ Len(documents[k].filename) =
                    Len(documents[k].document_id) + Len(file_extensions[x])
              /\ documents[k].document_id =
                    SubSeq(documents[k].filename, 1, Len(documents[k].document_id))
              /\ file_extensions[x] =
                    lower(SubSeq(documents[k].filename, Len(documents[k].document_id) + 1,
                                 Len(documents[k].filename)))

\* C10: load_documents_from_folder returns exactly one document for each
\* direct child that is a regular file with a lower-cased suffix in the
\* extensions and a successful read, and no other; a failed read skips that
\* file only; the document_id is the file name without its suffix.
C10_LoadDocuments ==
    /\ (entry = "load_documents_from_folder" /\ pc = "returned") =>
         OneDocumentPerFile(args.file_extensions)
    /\ (entry = "load_documents_from_folder" /\ pc # "call") =>
         (pc = "raised") = (folder.exists /\ ~folder.is_dir)
    /\ (entry = "main" /\ Len(steps) >= 5 /\ (folder.is_dir \/ ~folder.exists)) =>
         OneDocumentPerFile(DefaultExtensions)

C10_Witness ==
    /\ entry = "load_documents_from_folder" /\ pc = "returned"
    /\ args.file_extensions = DefaultExtensions
    /\ Len(folder.children) = 2
    /\ ~folder.children[1].readable
    /\ folder.children[2].name = <<"b", ".", "t", "a", "r", ".", "M", "D">>
    /\ Len(documents) = 1
    /\ documents[1].document_id = <<"b", ".", "t", "a", "r">>
    /\ documents[1].mime_type = "text/markdown"

====
